---- MODULE Spec2Model ----
(***************************************************************************)
(* Model of the session state management of the content organizer:        *)
(* the useHistoryState hook (undo/redo container), the App handlers that  *)
(* commit into it, the refinement lineage (suggestionHistory) and the     *)
(* rendering of SuggestionDisplay, and the debounced save of the draft to *)
(* localStorage.                                                           *)
(*                                                                         *)
(* React is modelled as follows.  A setState call made by a user-event    *)
(* handler is rendered before the handler's event ends.  A setState call  *)
(* made from an asynchronous continuation (after an await, in a           *)
(* FileReader onload) is put on the hook's update queue and rendered by a *)
(* later Render step; updaters run, in dispatch order, when the queue is  *)
(* processed.  Handlers read the values of the last render (closures).    *)
(* Arrays held in selectionGroup are objects: the field is a reference    *)
(* into the heap `arrays`, so that two history entries built with         *)
(* {...prev} share one array.                                              *)
(***************************************************************************)
EXTENDS Integers, Sequences, FiniteSets, TLC

VARIABLES
    state,        \* the hook's state object {history, currentIndex}
    arrays,       \* heap of the selectionGroup array objects
    queue,        \* dispatched, not yet rendered updates of the hook state
    applied,      \* the updates React processed in the latest render pass
                  \* (emptied by the next dispatch)
    rendered,     \* the hook state object as of the last render (closures)
    ui,           \* ephemeral useState values of App / SuggestionDisplay
    renderedUi,   \* ... as of the last render
    calls,        \* provider calls in flight, with the values they captured
    reads,        \* FileReader reads in flight
    storage,      \* localStorage[LOCAL_STORAGE_KEY]
    storageLog,   \* the setItem / removeItem calls made on that key, in order
    timers,       \* pending timeouts of the debounced save effect
    mountPending  \* TRUE until the mount effects have run

vars == <<state, arrays, queue, applied, rendered, ui, renderedUi, calls, reads, storage,
          storageLog, timers, mountPending>>

----------------------------------------------------------------------------
\* Bounds of the model
MaxHistory == 4      \* longest history array explored
MaxQueue == 2        \* most updates dispatched between two renders
MaxArrays == 3       \* most selectionGroup array objects allocated
MaxLineage == 2      \* longest suggestionHistory explored
MaxCalls == 2        \* most provider calls in flight
MaxStorageOps == 2   \* most setItem / removeItem calls explored
MaxReads == 1        \* most file reads in flight

\* Input alphabets
NULL == "<null>"
Texts == {"", "doc"}
StoreTexts == {"A", "B", "C", "D"}
Tags == {"api"}
Keywords == {"api", "perf"}
Generated == {"S0"}          \* texts the generation provider returns
Refined == {"S2"}            \* texts the refinement provider returns
Instructions == {"shorten"}
Snippets == {"ab", "abc"}
REVERT_PROMPT == "Current (Reverted From)"

\* JavaScript truthiness of a string|null value
Truthy(s) == s # NULL /\ s # ""

\* s.trim() for the texts of the model (none has surrounding white space
\* except the all-blank one and " api ")
Trim(s) == IF s = " " THEN "" ELSE IF s = " api " THEN "api" ELSE s

EmptyLedger == [k \in {} |-> 0]

\* the module-level constant initialState; its selectionGroup array is the
\* heap object 1
initialState ==
    [content |-> "", selectedTags |-> {}, customTags |-> EmptyLedger,
     suggestions |-> NULL, keywords |-> <<>>, suggestionHistory |-> <<>>,
     semanticScore |-> 0, selectionGroup |-> 1]

\* state.history[state.currentIndex] of a hook state object
Current(hs) == hs.history[hs.currentIndex + 1]
currentState == Current(state)
CanUndo(hs) == hs.currentIndex > 0
CanRedo(hs) == hs.currentIndex < Len(hs.history) - 1
canUndo == CanUndo(rendered)
canRedo == CanRedo(rendered)

\* (obj[k] || 0)
Intensity(ct, k) == IF k \in DOMAIN ct THEN ct[k] ELSE 0
SetKey(ct, k, v) == [x \in (DOMAIN ct) \cup {k} |-> IF x = k THEN v ELSE ct[x]]
DeleteKey(ct, k) == [x \in (DOMAIN ct) \ {k} |-> ct[x]]

----------------------------------------------------------------------------
\* Updaters passed to setCurrentState.  An updater is a record
\* [kind, a, b, c]; Updater(u, prev, heap) is the value it returns for prev
\* and the heap after the arrays it allocates.

Upd(kind, a, b, c) == [kind |-> kind, a |-> a, b |-> b, c |-> c]

Updater(u, prev, heap) ==
    CASE u.kind = "content" ->
            [value |-> [prev EXCEPT !.content = u.a], arrays |-> heap]
      [] u.kind = "toggle" ->
            [value |-> [prev EXCEPT !.selectedTags =
                            IF u.a \in @ THEN @ \ {u.a} ELSE @ \cup {u.a}],
             arrays |-> heap]
      [] u.kind = "addCustom" ->
            [value |-> [prev EXCEPT !.customTags =
                            SetKey(@, u.a, Intensity(@, u.a) + 1)],
             arrays |-> heap]
      [] u.kind = "removeCustom" ->
            [value |-> [prev EXCEPT !.customTags = DeleteKey(@, u.a)],
             arrays |-> heap]
      [] u.kind = "promote" ->
            [value |-> [prev EXCEPT !.selectedTags = @ \ {u.a},
                                    !.customTags =
                                        SetKey(@, u.a, Intensity(@, u.a) + 1)],
             arrays |-> heap]
      [] u.kind = "import" ->
            \* prev => ({...prev, customTags: newCustomTags,
            \*           selectedTags: newSelectedTags})
            [value |-> [prev EXCEPT !.customTags = u.a, !.selectedTags = u.b],
             arrays |-> heap]
      [] u.kind = "submitClear" ->
            [value |-> [prev EXCEPT !.suggestions = NULL, !.keywords = <<>>,
                                    !.semanticScore = 0],
             arrays |-> heap]
      [] u.kind = "submitResult" ->
            [value |-> [prev EXCEPT !.suggestions = u.a, !.keywords = u.b,
                                    !.semanticScore = u.c,
                                    !.suggestionHistory = <<>>],
             arrays |-> heap]
      [] u.kind = "refineResult" ->
            [value |-> [prev EXCEPT !.suggestions = u.a, !.keywords = u.b,
                                    !.suggestionHistory = Append(@, u.c)],
             arrays |-> heap]
      [] u.kind = "revert" ->
            [value |-> [prev EXCEPT !.suggestions = u.a,
                                    !.suggestionHistory = u.b],
             arrays |-> heap]
      [] u.kind = "addGroup" ->
            [value |-> [prev EXCEPT !.selectionGroup = Len(heap) + 1],
             arrays |-> Append(heap, Append(heap[prev.selectionGroup], u.a))]
      [] u.kind = "clearGroup" ->
            [value |-> [prev EXCEPT !.selectionGroup = Len(heap) + 1],
             arrays |-> Append(heap, <<>>)]

\* number of arrays an updater allocates
Allocates(u) == IF u.kind \in {"addGroup", "clearGroup"} THEN 1 ELSE 0

----------------------------------------------------------------------------
\* useHistoryState: the four operations as reducers of the state object

\* Faulty variants of the hook's operations, used to show that the
\* properties below depend on the code as written.

\* history and currentIndex kept as two states, the history computed from the
\* rendered values
setCurrentState_TwoStates(prevState, heap, u) ==
    LET r == Updater(u, prevState.history[prevState.currentIndex + 1], heap)
    IN [state |-> [history |-> Append(SubSeq(rendered.history, 1, rendered.currentIndex + 1),
                                      r.value),
                   currentIndex |-> prevState.currentIndex + 1],
        arrays |-> r.arrays]

\* next state computed from the last entry instead of the entry at the cursor
setCurrentState_FromTail(prevState, heap, u) ==
    LET r == Updater(u, prevState.history[Len(prevState.history)], heap)
    IN [state |-> [history |-> Append(SubSeq(prevState.history, 1, prevState.currentIndex + 1),
                                      r.value),
                   currentIndex |-> prevState.currentIndex + 1],
        arrays |-> r.arrays]

\* no slice(0, currentIndex + 1) before the push
setCurrentState_NoSlice(prevState, heap, u) ==
    LET r == Updater(u, prevState.history[prevState.currentIndex + 1], heap)
    IN [state |-> [history |-> Append(prevState.history, r.value),
                   currentIndex |-> prevState.currentIndex + 1],
        arrays |-> r.arrays]

\* the updater is called with the rendered current state
setCurrentState_RenderedArg(prevState, heap, u) ==
    LET r == Updater(u, rendered.history[rendered.currentIndex + 1], heap)
    IN [state |-> [history |-> Append(SubSeq(prevState.history, 1, prevState.currentIndex + 1),
                                      r.value),
                   currentIndex |-> prevState.currentIndex + 1],
        arrays |-> r.arrays]

undoState_Unguarded(prevState) ==
    [prevState EXCEPT !.currentIndex = prevState.currentIndex - 1]

redoState_ToTail(prevState) ==
    [prevState EXCEPT !.currentIndex = Len(prevState.history) - 1]

resetState_KeepIndex(newState) ==
    [history |-> <<newState>>, currentIndex |-> state.currentIndex]

\* setCurrentState(action), action an updater function
setCurrentState(prevState, heap, u) ==
    LET current == prevState.history[prevState.currentIndex + 1]
        r == Updater(u, current, heap)
        newHistory == Append(SubSeq(prevState.history, 1, prevState.currentIndex + 1),
                             r.value)
    IN [state |-> [history |-> newHistory,
                   currentIndex |-> prevState.currentIndex + 1],
        arrays |-> r.arrays]

undoState(prevState) ==
    IF prevState.currentIndex > 0
    THEN [prevState EXCEPT !.currentIndex = prevState.currentIndex - 1]
    ELSE prevState

redoState(prevState) ==
    IF prevState.currentIndex < Len(prevState.history) - 1
    THEN [prevState EXCEPT !.currentIndex = prevState.currentIndex + 1]
    ELSE prevState

resetState(newState) == [history |-> <<newState>>, currentIndex |-> 0]

\* one dispatched update [op, u] applied to the state object
Reduce(prevState, heap, item) ==
    CASE item.op = "set" -> setCurrentState(prevState, heap, item.u)
      [] item.op = "undo" -> [state |-> undoState(prevState), arrays |-> heap]
      [] item.op = "redo" -> [state |-> redoState(prevState), arrays |-> heap]
      [] item.op = "reset" ->
            \* item.u holds the new state in a; when c is TRUE its
            \* selectionGroup is the new array object b
            IF item.u.c
            THEN [state |-> resetState([item.u.a EXCEPT !.selectionGroup = Len(heap) + 1]),
                  arrays |-> Append(heap, item.u.b)]
            ELSE [state |-> resetState(item.u.a), arrays |-> heap]

Set(u) == [op |-> "set", u |-> u]
Undo == [op |-> "undo", u |-> Upd("none", 0, 0, 0)]
Redo == [op |-> "redo", u |-> Upd("none", 0, 0, 0)]
Reset(newState) == [op |-> "reset", u |-> Upd("none", newState, <<>>, FALSE)]
ResetNew(newState, array) == [op |-> "reset", u |-> Upd("none", newState, array, TRUE)]

\* React processes the queued updates in dispatch order
RECURSIVE ProcessQueue(_, _, _)
ProcessQueue(prevState, heap, q) ==
    IF q = <<>> THEN [state |-> prevState, arrays |-> heap]
    ELSE LET r == Reduce(prevState, heap, Head(q))
         IN ProcessQueue(r.state, r.arrays, Tail(q))

\* growth of the history and of the heap that processing q can cause
RECURSIVE QueueAllocates(_)
QueueAllocates(q) ==
    IF q = <<>> THEN 0
    ELSE (IF Head(q).op = "set" THEN Allocates(Head(q).u)
          ELSE IF Head(q).op = "reset" /\ Head(q).u.c THEN 1 ELSE 0)
         + QueueAllocates(Tail(q))

----------------------------------------------------------------------------
\* Rendering

\* Array.prototype.sort((a, b) => b.length - a.length): stable, longest first
RECURSIVE InsertByLength(_, _)
InsertByLength(sorted, x) ==
    IF sorted = <<>> THEN <<x>>
    ELSE IF Len(Head(sorted)) >= Len(x)
         THEN <<Head(sorted)>> \o InsertByLength(Tail(sorted), x)
         ELSE <<x>> \o sorted

RECURSIVE SortByLength(_)
SortByLength(arr) ==
    IF arr = <<>> THEN <<>>
    ELSE InsertByLength(SortByLength(SubSeq(arr, 1, Len(arr) - 1)), arr[Len(arr)])

\* SuggestionDisplay.renderMarkdown sorts the selectionGroup prop in place
renderMarkdown(heap, selectionGroup) ==
    IF Len(heap[selectionGroup]) > 0
    THEN [heap EXCEPT ![selectionGroup] = SortByLength(@)]
    ELSE heap

\* App's render: SuggestionDisplay is rendered when not loading and the
\* suggestion is truthy; it calls renderMarkdown unless the diff is shown.
\* (With an undefined current state App's destructuring throws and nothing is
\* rendered.)
RenderApp(hs, heap, u) ==
    IF /\ hs.currentIndex + 1 \in DOMAIN hs.history
       /\ ~u.isLoading /\ Truthy(Current(hs).suggestions) /\ ~u.showDiff
    THEN renderMarkdown(heap, Current(hs).selectionGroup)
    ELSE heap

\* the result of processing the queue followed by q stays within the bounds
WithinBounds(q) ==
    LET r == ProcessQueue(state, arrays, queue \o q)
    IN /\ Len(r.state.history) <= MaxHistory
       /\ Len(r.arrays) <= MaxArrays

\* Faulty variants of the save effect
\* no clearTimeout before the new setTimeout
SaveEffect_NoClear(ts, current) ==
    Append([i \in DOMAIN ts |-> [ts[i] EXCEPT !.ref = FALSE]],
           [state |-> current, ref |-> TRUE])

\* a pending timeout is kept instead of being replaced
SaveEffect_Leading(ts, current) ==
    IF ts # <<>> THEN ts ELSE <<[state |-> current, ref |-> TRUE]>>

\* the debounced save effect, run with the current state of the render:
\* clearTimeout(debouncedSave.current), then debouncedSave.current =
\* setTimeout(callback closing over state, 1000).  A pending timeout is the
\* state its callback closes over; ref marks the one debouncedSave.current
\* holds.
SaveEffect(ts, current) ==
    LET IsOther(t) == ~t.ref
    IN Append(SelectSeq(ts, IsOther), [state |-> current, ref |-> TRUE])

\* useEffect(..., [state]): the current state of the new render is another
\* object than the one of the previous render.  Within one history all
\* entries are distinct objects, and an entry that is found again at the same
\* cursor with the same value is the same object.
StateChanged(before, after) ==
    \/ after.currentIndex # before.currentIndex
    \/ Current(after) # Current(before)

\* one render pass: React processes the queue followed by q, renders App with
\* the ephemeral state u and runs the save effect if the current state
\* changed; ts are the pending timeouts before the pass
RenderPass(q, u, ts) ==
    LET r == ProcessQueue(state, arrays, queue \o q)
    IN /\ WithinBounds(q)
       /\ state' = r.state
       /\ arrays' = RenderApp(r.state, r.arrays, u)
       /\ queue' = <<>>
       /\ applied' = queue \o q
       /\ rendered' = r.state
       /\ ui' = u
       /\ renderedUi' = u
       /\ timers' = IF StateChanged(rendered, r.state)
                     THEN SaveEffect(ts, Current(r.state))
                     ELSE ts

\* a user-event handler dispatched the updates q and set the ephemeral state
\* to u: React renders before the event ends
UserEvent(q, u) == RenderPass(q, u, timers)

\* an asynchronous continuation dispatched q and set the ephemeral state to
\* u: rendered by a later Render
AsyncEvent(q, u) ==
    /\ Len(queue) + Len(q) <= MaxQueue
    /\ WithinBounds(q)
    /\ queue' = queue \o q
    /\ applied' = <<>>
    /\ ui' = u
    /\ UNCHANGED <<state, arrays, rendered, renderedUi, timers>>

\* the scheduled render of asynchronously dispatched updates
Render ==
    /\ queue # <<>> \/ ui # renderedUi
    /\ UserEvent(<<>>, ui)
    /\ UNCHANGED <<calls, reads, storage, storageLog, mountPending>>

----------------------------------------------------------------------------
\* Init: the state after App's first render

\* localStorage.getItem(LOCAL_STORAGE_KEY): item is "absent" (null),
\* "malformed" (JSON.parse throws) or "json", with the parsed object
EmptyObject ==
    [content |-> "", selectedTags |-> <<>>, customTags |-> EmptyLedger,
     suggestions |-> NULL, keywords |-> <<>>, suggestionHistory |-> <<>>,
     semanticScore |-> 0, selectionGroup |-> <<>>]
NoDraft == [item |-> "absent", parsed |-> EmptyObject]
MalformedDraft == [item |-> "malformed", parsed |-> EmptyObject]
Stored(parsed) == [item |-> "json", parsed |-> parsed]

initialUi ==
    [isLoading |-> FALSE, isRefining |-> FALSE, refinementPrompt |-> "",
     error |-> NULL, refinementError |-> NULL, popover |-> NULL,
     showDiff |-> FALSE, customTagInput |-> ""]

Init ==
    /\ state = [history |-> <<initialState>>, currentIndex |-> 0]
    /\ arrays = << <<>> >>
    /\ queue = <<>>
    /\ applied = <<>>
    /\ rendered = state
    /\ ui = initialUi
    /\ renderedUi = initialUi
    /\ calls = <<>>
    /\ reads = <<>>
    /\ storage = NoDraft
    /\ storageLog = <<>>
    /\ timers = <<>>
    /\ mountPending = FALSE

----------------------------------------------------------------------------
\* The History Store under an arbitrary client: each of the hook's four
\* callbacks may be called at any time; the calls are queued and React
\* applies them one by one, in order, at the next render.

StoreUpdaters ==
    {Upd("content", t, 0, 0) : t \in StoreTexts} \cup {Upd("toggle", t, 0, 0) : t \in Tags}

\* the values resetState is called with: initialState (clear draft) and a
\* rehydrated draft (load from storage)
ResetStates == {initialState, [initialState EXCEPT !.content = "doc"]}

Call(item) ==
    /\ queue = <<>> \/ applied = <<>>      \* not while React is rendering
    /\ Len(queue) < MaxQueue
    /\ queue' = Append(queue, item)
    /\ applied' = IF queue = <<>> THEN <<>> ELSE applied
    /\ UNCHANGED <<state, arrays, rendered, ui, renderedUi, calls, reads, storage, storageLog,
                 timers, mountPending>>

CallSetCurrentState(u) == Call(Set(u))

CallUndoState == Call(Undo)

CallRedoState == Call(Redo)

CallResetState(newState) == Call(Reset(newState))

\* React applies the oldest queued update; the render completes (and the
\* closures are refreshed) when the queue is empty
ApplyUpdate ==
    /\ queue # <<>>
    /\ LET r == Reduce(state, arrays, Head(queue))
       IN /\ Len(r.state.history) <= MaxHistory
          /\ state' = r.state
          /\ queue' = Tail(queue)
          /\ applied' = Append(applied, Head(queue))
          /\ arrays' = IF queue' = <<>> THEN RenderApp(r.state, r.arrays, ui) ELSE r.arrays
          /\ rendered' = IF queue' = <<>> THEN r.state ELSE rendered
    /\ UNCHANGED <<ui, renderedUi, calls, reads, storage, storageLog, timers, mountPending>>

NextStore ==
    \/ \E u \in StoreUpdaters : CallSetCurrentState(u)
    \/ CallUndoState
    \/ CallRedoState
    \/ \E newState \in ResetStates : CallResetState(newState)
    \/ ApplyUpdate

SpecStore == Init /\ [][NextStore]_vars

----------------------------------------------------------------------------
\* The App: drafts, handlers and provider continuations

\* Drafts found in localStorage at start-up, as JSON.parse returns them
\* (each one a draft an earlier session saved)
DraftGenerated ==
    [EmptyObject EXCEPT !.content = "doc", !.suggestions = "S0"]
DraftRefined ==
    [DraftGenerated EXCEPT !.suggestions = "S1",
                           !.suggestionHistory =
                               <<[prompt |-> "shorten", suggestion |-> "S0"]>>]
DraftSelected ==
    [DraftGenerated EXCEPT !.selectionGroup = <<"ab">>]
DraftGrouped ==
    [DraftGenerated EXCEPT !.suggestions = NULL, !.selectionGroup = <<"ab", "abc">>]

Range(seq) == {seq[i] : i \in 1..Len(seq)}

\* the load-draft effect's rehydratedState; its selectionGroup is the parsed
\* array, a new object
Rehydrate(parsed) ==
    [content |-> parsed.content,
     selectedTags |-> Range(parsed.selectedTags),
     customTags |-> parsed.customTags,
     suggestions |-> IF Truthy(parsed.suggestions) THEN parsed.suggestions ELSE NULL,
     keywords |-> parsed.keywords,
     suggestionHistory |-> parsed.suggestionHistory,
     semanticScore |-> parsed.semanticScore,
     selectionGroup |-> 0]

\* Init with one of the given drafts in localStorage, before the load-draft
\* effect has run
InitWith(drafts) ==
    /\ state = [history |-> <<initialState>>, currentIndex |-> 0]
    /\ arrays = << <<>> >>
    /\ queue = <<>>
    /\ applied = <<>>
    /\ rendered = state
    /\ ui = initialUi
    /\ renderedUi = initialUi
    /\ calls = <<>>
    /\ reads = <<>>
    /\ storage \in drafts
    /\ storageLog = <<>>
    /\ timers = <<>>
    /\ mountPending = TRUE

\* faulty variant: an item that does not parse is reported to the user
LoadDraft_Reports ==
    /\ mountPending
    /\ mountPending' = FALSE
    /\ LET mounted == SaveEffect(timers, Current(rendered))
       IN IF storage.item = "absent"
          THEN /\ timers' = mounted
               /\ UNCHANGED <<state, arrays, queue, applied, rendered, ui, renderedUi>>
          ELSE IF storage.item = "malformed"
          THEN /\ timers' = mounted
               /\ ui' = [ui EXCEPT !.error = "Failed to load draft."]
               /\ renderedUi' = ui'
               /\ UNCHANGED <<state, arrays, queue, applied, rendered>>
          ELSE RenderPass(<<ResetNew(Rehydrate(storage.parsed),
                                     storage.parsed.selectionGroup)>>, ui, mounted)
    /\ UNCHANGED <<calls, reads, storage, storageLog>>


\* the effects of the mount: useEffect(..., [resetState]) loads the draft,
\* the save effect runs for the first render, and the state the draft was
\* reset to is rendered (with the save effect again)
LoadDraft ==
    /\ mountPending
    /\ mountPending' = FALSE
    /\ LET mounted == SaveEffect(timers, Current(rendered))
       IN IF storage.item # "json"
          THEN /\ timers' = mounted
               /\ UNCHANGED <<state, arrays, queue, applied, rendered, ui, renderedUi>>
          ELSE RenderPass(<<ResetNew(Rehydrate(storage.parsed),
                                     storage.parsed.selectionGroup)>>, ui, mounted)
    /\ UNCHANGED <<calls, reads, storage, storageLog>>

RemoveAt(seq, i) == SubSeq(seq, 1, i - 1) \o SubSeq(seq, i + 1, Len(seq))

\* the SuggestionDisplay and the refinement panel are on screen
DisplayShown == ~renderedUi.isLoading /\ Truthy(Current(rendered).suggestions)

\* textarea onChange
ContentChange(text) ==
    /\ ~mountPending
    /\ text # Current(rendered).content
    /\ UserEvent(<<Set(Upd("content", text, 0, 0))>>, ui)
    /\ UNCHANGED <<calls, reads, storage, storageLog, mountPending>>

UndoClick ==
    /\ ~mountPending
    /\ canUndo
    /\ UserEvent(<<Undo>>, ui)
    /\ UNCHANGED <<calls, reads, storage, storageLog, mountPending>>

RedoClick ==
    /\ ~mountPending
    /\ canRedo
    /\ UserEvent(<<Redo>>, ui)
    /\ UNCHANGED <<calls, reads, storage, storageLog, mountPending>>

\* faulty variant: the content is not validated
HandleSubmit_NoValidation ==
    /\ ~mountPending
    /\ ~renderedUi.isLoading
    /\ Len(calls) < MaxCalls
    /\ UserEvent(<<Set(Upd("submitClear", 0, 0, 0))>>,
                 [ui EXCEPT !.isLoading = TRUE, !.error = NULL])
    /\ calls' = Append(calls, [kind |-> "generate", prompt |-> "",
                               suggestion |-> Current(rendered).suggestions])
    /\ UNCHANGED <<reads, storage, storageLog, mountPending>>


\* handleSubmit up to its await; the call keeps the suggestions of the render
\* the handler was created in
HandleSubmit ==
    /\ ~mountPending
    /\ ~renderedUi.isLoading
    /\ IF Trim(Current(rendered).content) = ""
       THEN /\ UserEvent(<<>>, [ui EXCEPT !.error = "Please enter some content to analyze."])
            /\ UNCHANGED calls
       ELSE /\ Len(calls) < MaxCalls
            /\ UserEvent(<<Set(Upd("submitClear", 0, 0, 0))>>,
                         [ui EXCEPT !.isLoading = TRUE, !.error = NULL])
            /\ calls' = Append(calls, [kind |-> "generate", prompt |-> "",
                                       suggestion |-> Current(rendered).suggestions])
    /\ UNCHANGED <<reads, storage, storageLog, mountPending>>

\* handleSubmit after the await: the provider's result
GenerateResults ==
    {[suggestions |-> sg, keywords |-> <<"perf">>, semanticScore |-> 80] : sg \in Generated}

\* faulty variant: the result commit keeps the lineage of the last render
GenerateResolve_KeepLineage(i, result) ==
    /\ calls[i].kind = "generate"
    /\ AsyncEvent(<<Set(Upd("revert", result.suggestions,
                            Current(rendered).suggestionHistory, 0))>>,
                  [ui EXCEPT !.isLoading = FALSE])
    /\ calls' = RemoveAt(calls, i)
    /\ UNCHANGED <<reads, storage, storageLog, mountPending>>

GenerateResolve(i, result) ==
    /\ calls[i].kind = "generate"
    /\ AsyncEvent(<<Set(Upd("submitResult", result.suggestions, result.keywords,
                            result.semanticScore))>>,
                  [ui EXCEPT !.isLoading = FALSE])
    /\ calls' = RemoveAt(calls, i)
    /\ UNCHANGED <<reads, storage, storageLog, mountPending>>

GenerateFail(i) ==
    /\ calls[i].kind = "generate"
    /\ AsyncEvent(<<>>, [ui EXCEPT !.isLoading = FALSE,
                                   !.error = "Could not fetch suggestions from the AI model."])
    /\ calls' = RemoveAt(calls, i)
    /\ UNCHANGED <<reads, storage, storageLog, mountPending>>

\* the refinement input's onChange (also set by the template buttons)
SetRefinementPrompt(text) ==
    /\ ~mountPending
    /\ DisplayShown
    /\ ~renderedUi.isRefining
    /\ text # renderedUi.refinementPrompt
    /\ UserEvent(<<>>, [ui EXCEPT !.refinementPrompt = text])
    /\ UNCHANGED <<calls, reads, storage, storageLog, mountPending>>

\* handleRefineSubmit up to its await; the call keeps the refinementPrompt and
\* the suggestions of the render the handler was created in
HandleRefineSubmit ==
    /\ ~mountPending
    /\ DisplayShown
    /\ ~renderedUi.isRefining
    /\ IF Trim(renderedUi.refinementPrompt) = "" \/ ~Truthy(Current(rendered).suggestions)
       THEN /\ UserEvent(<<>>, [ui EXCEPT !.refinementError =
                                              "Please enter a refinement instruction."])
            /\ UNCHANGED calls
       ELSE /\ Len(calls) < MaxCalls
            /\ UserEvent(<<>>, [ui EXCEPT !.isRefining = TRUE, !.refinementError = NULL])
            /\ calls' = Append(calls, [kind |-> "refine",
                                       prompt |-> renderedUi.refinementPrompt,
                                       suggestion |-> Current(rendered).suggestions])
    /\ UNCHANGED <<reads, storage, storageLog, mountPending>>

RefineResults == {[suggestions |-> sg, keywords |-> <<"perf">>] : sg \in Refined}

\* Faulty variant carrying a per-request sequence token: the response of a
\* request issued before one that is still in flight is silently discarded.
RefineResolve_Fenced(i, result) ==
    /\ calls[i].kind = "refine"
    /\ LET newHistoryEntry == [prompt |-> calls[i].prompt, suggestion |-> calls[i].suggestion]
       IN AsyncEvent(IF i < Len(calls)
                     THEN <<>>
                     ELSE <<Set(Upd("refineResult", result.suggestions, result.keywords,
                                    newHistoryEntry))>>,
                     [ui EXCEPT !.refinementPrompt = "", !.isRefining = FALSE])
    /\ calls' = RemoveAt(calls, i)
    /\ UNCHANGED <<reads, storage, storageLog, mountPending>>

\* handleRefineSubmit after the await
RefineResolve(i, result) ==
    /\ calls[i].kind = "refine"
    /\ LET newHistoryEntry == [prompt |-> calls[i].prompt, suggestion |-> calls[i].suggestion]
       IN AsyncEvent(<<Set(Upd("refineResult", result.suggestions, result.keywords,
                               newHistoryEntry))>>,
                     [ui EXCEPT !.refinementPrompt = "", !.isRefining = FALSE])
    /\ calls' = RemoveAt(calls, i)
    /\ UNCHANGED <<reads, storage, storageLog, mountPending>>

RefineFail(i) ==
    /\ calls[i].kind = "refine"
    /\ AsyncEvent(<<>>, [ui EXCEPT !.isRefining = FALSE,
                                   !.refinementError =
                                       "Could not refine suggestions from the AI model."])
    /\ calls' = RemoveAt(calls, i)
    /\ UNCHANGED <<reads, storage, storageLog, mountPending>>

\* faulty variant: the synthetic entry records the target instead of the
\* suggestion shown
HandleRevertToVersion_DropCurrent(index) ==
    /\ ~mountPending
    /\ DisplayShown
    /\ index \in 0..(Len(Current(rendered).suggestionHistory) - 1)
    /\ LET suggestionHistory == Current(rendered).suggestionHistory
           newCurrentSuggestion == suggestionHistory[index + 1].suggestion
           updatedHistory ==
               Append(SubSeq(suggestionHistory, 1, index),
                      [prompt |-> REVERT_PROMPT, suggestion |-> newCurrentSuggestion])
       IN UserEvent(<<Set(Upd("revert", newCurrentSuggestion, updatedHistory, 0))>>, ui)
    /\ UNCHANGED <<calls, reads, storage, storageLog, mountPending>>

\* faulty variant: the entries after index are kept
HandleRevertToVersion_NoTruncate(index) ==
    /\ ~mountPending
    /\ DisplayShown
    /\ index \in 0..(Len(Current(rendered).suggestionHistory) - 1)
    /\ LET suggestionHistory == Current(rendered).suggestionHistory
           suggestions == Current(rendered).suggestions
           updatedHistory ==
               Append(suggestionHistory, [prompt |-> REVERT_PROMPT, suggestion |-> suggestions])
       IN UserEvent(<<Set(Upd("revert", suggestionHistory[index + 1].suggestion,
                              updatedHistory, 0))>>, ui)
    /\ UNCHANGED <<calls, reads, storage, storageLog, mountPending>>

\* handleRevertToVersion(index): computed from the suggestionHistory and the
\* suggestions of the render the button was created in
HandleRevertToVersion(index) ==
    /\ ~mountPending
    /\ DisplayShown
    /\ index \in 0..(Len(Current(rendered).suggestionHistory) - 1)
    /\ LET suggestionHistory == Current(rendered).suggestionHistory
           suggestions == Current(rendered).suggestions
           historyEntry == suggestionHistory[index + 1]
           newCurrentSuggestion == historyEntry.suggestion
           newHistory == SubSeq(suggestionHistory, 1, index)
           updatedHistory ==
               Append(newHistory, [prompt |-> REVERT_PROMPT, suggestion |-> suggestions])
       IN UserEvent(<<Set(Upd("revert", newCurrentSuggestion, updatedHistory, 0))>>, ui)
    /\ UNCHANGED <<calls, reads, storage, storageLog, mountPending>>

\* faulty variant: the popover is opened for any selection
HandleTextSelect_Unguarded(text) ==
    /\ ~mountPending
    /\ UserEvent(<<>>, [ui EXCEPT !.popover = text])
    /\ UNCHANGED <<calls, reads, storage, storageLog, mountPending>>

\* a text selection in the suggestion display or the textarea opens the
\* popover, unless the selected text is empty or blank
HandleTextSelect(text) ==
    /\ ~mountPending
    /\ IF Trim(text) # ""
       THEN UserEvent(<<>>, [ui EXCEPT !.popover = text])
       ELSE UNCHANGED <<state, arrays, queue, applied, rendered, ui, renderedUi, timers>>
    /\ UNCHANGED <<calls, reads, storage, storageLog, mountPending>>

\* Faulty variant: the snippet is appended without looking whether the group
\* already has it.
HandleAddToGroupFromPopover_NoCheck ==
    /\ ~mountPending
    /\ renderedUi.popover # NULL
    /\ UserEvent(<<Set(Upd("addGroup", renderedUi.popover, 0, 0))>>, ui)
    /\ UNCHANGED <<calls, reads, storage, storageLog, mountPending>>

HandleAddToGroupFromPopover ==
    /\ ~mountPending
    /\ renderedUi.popover # NULL
    /\ IF renderedUi.popover \notin Range(arrays[Current(rendered).selectionGroup])
       THEN UserEvent(<<Set(Upd("addGroup", renderedUi.popover, 0, 0))>>, ui)
       ELSE UserEvent(<<>>, ui)
    /\ UNCHANGED <<calls, reads, storage, storageLog, mountPending>>

HandleClearGroup ==
    /\ ~mountPending
    /\ Len(arrays[Current(rendered).selectionGroup]) > 0
    /\ UserEvent(<<Set(Upd("clearGroup", 0, 0, 0))>>, ui)
    /\ UNCHANGED <<calls, reads, storage, storageLog, mountPending>>

\* the "View Changes" button of SuggestionDisplay
ToggleDiff ==
    /\ ~mountPending
    /\ DisplayShown
    /\ UserEvent(<<>>, [ui EXCEPT !.showDiff = ~@])
    /\ UNCHANGED <<calls, reads, storage, storageLog, mountPending>>

\* Array.from(state.selectedTags)
RECURSIVE SetToSeq(_)
SetToSeq(set) ==
    IF set = {} THEN <<>>
    ELSE LET x == CHOOSE y \in set : TRUE
         IN <<x>> \o SetToSeq(set \ {x})

\* JSON.parse(JSON.stringify(serializableState)) for the state a timeout
\* closed over; the selectionGroup array is read when the timeout fires
Serialize(entry, heap) ==
    [content |-> entry.content,
     selectedTags |-> SetToSeq(entry.selectedTags),
     customTags |-> entry.customTags,
     suggestions |-> entry.suggestions,
     keywords |-> entry.keywords,
     suggestionHistory |-> entry.suggestionHistory,
     semanticScore |-> entry.semanticScore,
     selectionGroup |-> heap[entry.selectionGroup]]

\* faulty variant: a failed write resets the store
TimerFire_FailResets(ok) ==
    /\ ~mountPending
    /\ timers # <<>>
    /\ Len(storageLog) < MaxStorageOps
    /\ timers' = Tail(timers)
    /\ IF ok
       THEN /\ storage' = Stored(Serialize(Head(timers).state, arrays))
            /\ storageLog' = Append(storageLog, "setItem")
            /\ UNCHANGED <<queue, applied>>
       ELSE /\ storageLog' = Append(storageLog, "setItem throws")
            /\ queue' = Append(queue, Reset(initialState))
            /\ applied' = <<>>
            /\ UNCHANGED storage
    /\ UNCHANGED <<state, arrays, rendered, ui, renderedUi, calls, reads, mountPending>>

\* the callback of the oldest pending timeout runs: localStorage.setItem
\* stores the draft (ok) or throws, e.g. QuotaExceededError, which the
\* callback catches and logs
TimerFire(ok) ==
    /\ ~mountPending
    /\ timers # <<>>
    /\ Len(storageLog) < MaxStorageOps
    /\ timers' = Tail(timers)
    /\ IF ok
       THEN /\ storage' = Stored(Serialize(Head(timers).state, arrays))
            /\ storageLog' = Append(storageLog, "setItem")
       ELSE /\ storageLog' = Append(storageLog, "setItem throws")
            /\ UNCHANGED storage
    /\ UNCHANGED <<state, arrays, queue, applied, rendered, ui, renderedUi, calls, reads,
                   mountPending>>

\* handleClearDraft, confirmed
HandleClearDraft ==
    /\ ~mountPending
    /\ Len(storageLog) < MaxStorageOps
    /\ storage' = NoDraft
    /\ storageLog' = Append(storageLog, "removeItem")
    /\ UserEvent(<<Reset(initialState)>>, ui)
    /\ UNCHANGED <<calls, reads, mountPending>>

\* the refinement lineage: generate, refine, revert, undo and redo
NextLineage ==
    \/ LoadDraft
    \/ \E text \in Texts : ContentChange(text)
    \/ HandleSubmit
    \/ \E i \in 1..Len(calls), result \in GenerateResults : GenerateResolve(i, result)
    \/ \E i \in 1..Len(calls) : GenerateFail(i)
    \/ \E text \in Instructions : SetRefinementPrompt(text)
    \/ HandleRefineSubmit
    \/ \E i \in 1..Len(calls), result \in RefineResults : RefineResolve(i, result)
    \/ \E i \in 1..Len(calls) : RefineFail(i)
    \/ \E index \in 0..(MaxLineage - 1) : HandleRevertToVersion(index)
    \/ UndoClick
    \/ RedoClick
    \/ Render

InitLineage == InitWith({NoDraft, Stored(DraftGenerated), Stored(DraftRefined)})

SpecLineage == InitLineage /\ [][NextLineage]_vars

\* the texts a mouse-up may find selected: snippets, nothing (a click
\* without drag) or white space
Selections == Snippets \cup {"", " "}

\* the selection group and the suggestion display
NextDisplay ==
    \/ LoadDraft
    \/ HandleSubmit
    \/ \E i \in 1..Len(calls), result \in GenerateResults : GenerateResolve(i, result)
    \/ \E text \in Selections : HandleTextSelect(text)
    \/ HandleAddToGroupFromPopover
    \/ HandleClearGroup
    \/ ToggleDiff
    \/ UndoClick
    \/ RedoClick
    \/ Render

InitDisplay == InitWith({MalformedDraft, Stored(DraftGenerated), Stored(DraftGrouped)})

SpecDisplay == InitDisplay /\ [][NextDisplay]_vars

\* the persistence of the draft: edits, undo, redo, clear, the selection
\* group shown in the suggestion display, and the debounce timeouts
NextPersist ==
    \/ LoadDraft
    \/ \E text \in Texts : ContentChange(text)
    \/ UndoClick
    \/ RedoClick
    \/ HandleClearDraft
    \/ \E text \in Snippets : HandleTextSelect(text)
    \/ HandleAddToGroupFromPopover
    \/ ToggleDiff
    \/ \E ok \in BOOLEAN : TimerFire(ok)

InitPersist == InitWith({NoDraft, Stored(DraftSelected)})

SpecPersist == InitPersist /\ [][NextPersist]_vars

\* the rehydration of the draft at start-up: absent and malformed items, and
\* the drafts the save effect writes for the Session States of ValidStates
CodecLedgers == {EmptyLedger, [k \in {"api"} |-> 2]}
CodecGroups == {<<>>, <<"ab">>}
ValidStates ==
    [content : Texts, selectedTags : SUBSET Tags, customTags : CodecLedgers,
     suggestions : {NULL, "", "S0"}, keywords : {<<>>, <<"perf">>},
     suggestionHistory : {<<>>, <<[prompt |-> "shorten", suggestion |-> "S0"]>>},
     semanticScore : {0, 80}, selectionGroup : {1}]

NextCodec == LoadDraft

InitCodec ==
    InitWith({NoDraft, MalformedDraft}
             \cup {Stored(Serialize(s, <<g>>)) : s \in ValidStates, g \in CodecGroups})

SpecCodec == InitCodec /\ [][NextCodec]_vars


----------------------------------------------------------------------------
\* The load-draft effect on any parsed object.  JSON.parse may return an
\* object whose fields hold values of any JSON type, or lack a field.  A
\* JavaScript value is modelled here by its type and its JSON text.

JUndefined == [type |-> "undefined", text |-> ""]      \* a missing field
JNull == [type |-> "null", text |-> "null"]
JString(s) == [type |-> "string", text |-> s]
JNumber(n) == [type |-> "number", text |-> n]
JBoolean(b) == [type |-> "boolean", text |-> b]
JArray(elements) == [type |-> "array", text |-> elements]
JObject(members) == [type |-> "object", text |-> members]

\* the values a field of the parsed object is drawn from
JsonValues ==
    {JUndefined, JNull, JString(""), JString("x"), JNumber("0"), JNumber("42"),
     JBoolean("false"), JBoolean("true"), JArray("[]"), JObject("{}")}

\* !v
Falsy(v) ==
    \/ v.type \in {"undefined", "null"}
    \/ v \in {JString(""), JNumber("0"), JBoolean("false")}

\* v || d
OrElse(v, d) == IF Falsy(v) THEN d ELSE v

\* new Set(v) throws a TypeError unless v is iterable; of the values above
\* arrays and strings are (a string iterates over its characters)
Iterable(v) == v.type \in {"array", "string"}
NewSet(v) ==
    [type |-> IF v.type = "array" THEN "Set" ELSE "Set of characters", text |-> v.text]

\* initialState, in this representation
initialStateJson ==
    [content |-> JString(""), selectedTags |-> NewSet(JArray("[]")),
     customTags |-> JObject("{}"), suggestions |-> JNull, keywords |-> JArray("[]"),
     suggestionHistory |-> JArray("[]"), semanticScore |-> JNumber("0"),
     selectionGroup |-> JArray("[]")]

\* the object literal rehydratedState of the load-draft effect
RehydrateJson(parsed) ==
    [content |-> OrElse(parsed.content, JString("")),
     selectedTags |-> NewSet(OrElse(parsed.selectedTags, JArray("[]"))),
     customTags |-> OrElse(parsed.customTags, JObject("{}")),
     suggestions |-> OrElse(parsed.suggestions, JNull),
     keywords |-> OrElse(parsed.keywords, JArray("[]")),
     suggestionHistory |-> OrElse(parsed.suggestionHistory, JArray("[]")),
     semanticScore |-> OrElse(parsed.semanticScore, JNumber("0")),
     selectionGroup |-> OrElse(parsed.selectionGroup, JArray("[]"))]

\* evaluating the literal throws (in new Set), which the effect's catch logs
RehydrateThrows(parsed) == ~Iterable(OrElse(parsed.selectedTags, JArray("[]")))

\* drafts as the save effect writes them, and the same with one field
\* replaced by any of the values
SavedJson ==
    [content |-> JString("doc"), selectedTags |-> JArray("['api']"),
     customTags |-> JObject("{'api': 2}"), suggestions |-> JString("S0"),
     keywords |-> JArray("['perf']"),
     suggestionHistory |-> JArray("[{'prompt': 'shorten', 'suggestion': 'S1'}]"),
     semanticScore |-> JNumber("80"), selectionGroup |-> JArray("['ab']")]
SavedJsons == {SavedJson, [SavedJson EXCEPT !.suggestions = JNull]}
JsonDrafts ==
    {[b EXCEPT ![f] = v] : b \in SavedJsons, f \in DOMAIN SavedJson, v \in JsonValues}

\* the load-draft effect (with the save effect of the mount and of the
\* render of the state it resets to)
LoadJsonDraft ==
    /\ mountPending
    /\ mountPending' = FALSE
    /\ LET mounted == SaveEffect(timers, Current(rendered))
       IN IF RehydrateThrows(storage.parsed)
          THEN /\ timers' = mounted
               /\ UNCHANGED <<state, rendered>>
          ELSE /\ state' = resetState(RehydrateJson(storage.parsed))
               /\ rendered' = state'
               /\ timers' = SaveEffect(mounted, Current(state'))
    /\ UNCHANGED <<arrays, queue, applied, ui, renderedUi, calls, reads, storage, storageLog>>

NextJson == LoadJsonDraft

InitJson ==
    /\ state = [history |-> <<initialStateJson>>, currentIndex |-> 0]
    /\ arrays = << <<>> >>
    /\ queue = <<>>
    /\ applied = <<>>
    /\ rendered = state
    /\ ui = initialUi
    /\ renderedUi = initialUi
    /\ calls = <<>>
    /\ reads = <<>>
    /\ storage \in {Stored(parsed) : parsed \in JsonDrafts}
    /\ storageLog = <<>>
    /\ timers = <<>>
    /\ mountPending = TRUE

SpecJson == InitJson /\ [][NextJson]_vars


----------------------------------------------------------------------------
\* Tags and the reinforcement ledger (customTags): toggles, keyword adds and
\* removes, promotion, and the import of a keyword profile

\* the texts typed into the keyword input
CustomTagInputs == {"", " ", " api "}
\* the arguments handleAddCustomTag is called with: none (undefined), or the
\* keyword of a chip, of the popover or of a discovered keyword
TagsToAdd == {NULL, "perf"}

\* the predefined tag's button is rendered unless the tag is a ledger key
TagShown(tag) == tag \notin DOMAIN Current(rendered).customTags

HandleTagToggle(tag) ==
    /\ ~mountPending
    /\ TagShown(tag)
    /\ UserEvent(<<Set(Upd("toggle", tag, 0, 0))>>, ui)
    /\ UNCHANGED <<calls, reads, storage, storageLog, mountPending>>

\* the keyword input's onChange
HandleCustomTagChange(text) ==
    /\ ~mountPending
    /\ text # renderedUi.customTagInput
    /\ UserEvent(<<>>, [ui EXCEPT !.customTagInput = text])
    /\ UNCHANGED <<calls, reads, storage, storageLog, mountPending>>

\* faulty variant: the keyword is used as typed
HandleAddCustomTag_NoTrim(tagToAdd) ==
    /\ ~mountPending
    /\ LET newTag == IF Truthy(tagToAdd) THEN tagToAdd ELSE renderedUi.customTagInput
       IN IF newTag # ""
          THEN UserEvent(<<Set(Upd("addCustom", newTag, 0, 0))>>,
                         [ui EXCEPT !.customTagInput = ""])
          ELSE UNCHANGED <<state, arrays, queue, applied, rendered, ui, renderedUi, timers>>
    /\ UNCHANGED <<calls, reads, storage, storageLog, mountPending>>

\* handleAddCustomTag(tagToAdd?): with a blank keyword nothing is set
HandleAddCustomTag(tagToAdd) ==
    /\ ~mountPending
    /\ LET newTag == Trim(IF Truthy(tagToAdd) THEN tagToAdd
                          ELSE renderedUi.customTagInput)
       IN IF newTag # ""
          THEN UserEvent(<<Set(Upd("addCustom", newTag, 0, 0))>>,
                         [ui EXCEPT !.customTagInput = ""])
          ELSE UNCHANGED <<state, arrays, queue, applied, rendered, ui, renderedUi, timers>>
    /\ UNCHANGED <<calls, reads, storage, storageLog, mountPending>>

\* the remove button of a ledger chip
HandleRemoveCustomTag(tagToRemove) ==
    /\ ~mountPending
    /\ tagToRemove \in DOMAIN Current(rendered).customTags
    /\ UserEvent(<<Set(Upd("removeCustom", tagToRemove, 0, 0))>>, ui)
    /\ UNCHANGED <<calls, reads, storage, storageLog, mountPending>>

\* faulty variant: the removal and the increment are two commits
PromoteTagToIntention_TwoCommits(tagToPromote) ==
    /\ ~mountPending
    /\ TagShown(tagToPromote)
    /\ tagToPromote \in Current(rendered).selectedTags
    /\ UserEvent(<<Set(Upd("toggle", tagToPromote, 0, 0)),
                   Set(Upd("addCustom", tagToPromote, 0, 0))>>, ui)
    /\ UNCHANGED <<calls, reads, storage, storageLog, mountPending>>

\* promoteTagToIntention: the "+" inside the button of a selected tag
PromoteTagToIntention(tagToPromote) ==
    /\ ~mountPending
    /\ TagShown(tagToPromote)
    /\ tagToPromote \in Current(rendered).selectedTags
    /\ UserEvent(<<Set(Upd("promote", tagToPromote, 0, 0))>>, ui)
    /\ UNCHANGED <<calls, reads, storage, storageLog, mountPending>>

\* The document of an imported file, as JSON.parse reads it: parses is FALSE
\* when JSON.parse throws; shape is that of data.customTags ("object",
\* "array", or "absent"); an entry of the object shape is a key with
\* Number(value), valid unless that is NaN; an entry of the array shape is an
\* element, valid if it is a string; hasSelectedTags tells whether
\* data.selectedTags is an array.
Entry(tag, value, valid) == [tag |-> tag, value |-> value, valid |-> valid]
ImportDoc(parses, shape, entries, hasSelectedTags, selectedTags) ==
    [parses |-> parses, shape |-> shape, entries |-> entries,
     hasSelectedTags |-> hasSelectedTags, selectedTags |-> selectedTags]

MalformedDoc == ImportDoc(FALSE, "absent", <<>>, FALSE, <<>>)
\* {"customTags": {"perf": 3, "api": 1}}
ProfileDoc ==
    ImportDoc(TRUE, "object", <<Entry("perf", 3, TRUE), Entry("api", 1, TRUE)>>, FALSE, <<>>)
\* {"customTags": {}, "selectedTags": ["api"]}
TagsDoc == ImportDoc(TRUE, "object", <<>>, TRUE, <<"api">>)
\* {"customTags": ["api"]}
LegacyDoc == ImportDoc(TRUE, "array", <<Entry("api", 1, TRUE)>>, FALSE, <<>>)
\* {"customTags": {"perf": "high"}}
NonNumericDoc == ImportDoc(TRUE, "object", <<Entry("perf", 0, FALSE)>>, FALSE, <<>>)

\* {"customTags": {"api": 0}}: Number(0) is a number, so the entry is merged
ZeroDoc == ImportDoc(TRUE, "object", <<Entry("api", 0, TRUE)>>, FALSE, <<>>)

ImportDocs == {MalformedDoc, ProfileDoc, TagsDoc, LegacyDoc, NonNumericDoc, ZeroDoc}

\* faulty variant: an imported intensity replaces the existing one
RECURSIVE MergeEntries_Overwrite(_, _, _)
MergeEntries_Overwrite(newCustomTags, entries, shape) ==
    IF entries = <<>> THEN newCustomTags
    ELSE LET e == Head(entries)
         IN MergeEntries_Overwrite(
                IF e.valid
                THEN SetKey(newCustomTags, e.tag, IF shape = "array" THEN 1 ELSE e.value)
                ELSE newCustomTags,
                Tail(entries), shape)

\* faulty variant: the intensity of a key the ledger already has is kept
RECURSIVE MergeEntries_KeepExisting(_, _, _)
MergeEntries_KeepExisting(newCustomTags, entries, shape) ==
    IF entries = <<>> THEN newCustomTags
    ELSE LET e == Head(entries)
         IN MergeEntries_KeepExisting(
                IF e.valid /\ e.tag \notin DOMAIN newCustomTags
                THEN SetKey(newCustomTags, e.tag, IF shape = "array" THEN 1 ELSE e.value)
                ELSE newCustomTags,
                Tail(entries), shape)

\* the two loops of the import over data.customTags:
\* newCustomTags[tag] = (newCustomTags[tag] || 0) + 1 for the array shape,
\* ... + intensity for the object shape
RECURSIVE MergeEntries(_, _, _)
MergeEntries(newCustomTags, entries, shape) ==
    IF entries = <<>> THEN newCustomTags
    ELSE LET e == Head(entries)
         IN MergeEntries(
                IF e.valid
                THEN SetKey(newCustomTags, e.tag,
                            Intensity(newCustomTags, e.tag)
                                + (IF shape = "array" THEN 1 ELSE e.value))
                ELSE newCustomTags,
                Tail(entries), shape)

\* the flag `updated` of the import
ImportUpdated(doc) ==
    \/ \E i \in 1..Len(doc.entries) : doc.entries[i].valid
    \/ doc.hasSelectedTags

\* handleImportKeywords: a file was chosen; the reader's onload closes over
\* customTags and selectedTags of the render the handler was created in
HandleImportKeywords(doc) ==
    /\ ~mountPending
    /\ Len(reads) < MaxReads
    /\ reads' = Append(reads, [doc |-> doc,
                               customTags |-> Current(rendered).customTags,
                               selectedTags |-> Current(rendered).selectedTags])
    /\ UNCHANGED <<state, arrays, queue, applied, rendered, ui, renderedUi, calls, storage,
                   storageLog, timers, mountPending>>

IMPORT_ERROR == "Failed to import keywords. Please check the file format."

\* faulty variant: a document that does not parse commits the ledger read so far
ImportLoad_PartialMerge(i) ==
    /\ i \in 1..Len(reads)
    /\ LET doc == reads[i].doc
           newCustomTags == MergeEntries(reads[i].customTags, doc.entries, doc.shape)
           newSelectedTags ==
               IF doc.hasSelectedTags
               THEN reads[i].selectedTags \cup Range(doc.selectedTags)
               ELSE reads[i].selectedTags
       IN IF ~doc.parses
          THEN AsyncEvent(<<Set(Upd("import", newCustomTags, newSelectedTags, 0))>>,
                          [ui EXCEPT !.error = IMPORT_ERROR])
          ELSE IF ImportUpdated(doc)
          THEN AsyncEvent(<<Set(Upd("import", newCustomTags, newSelectedTags, 0))>>, ui)
          ELSE AsyncEvent(<<>>, ui)
    /\ reads' = RemoveAt(reads, i)
    /\ UNCHANGED <<calls, storage, storageLog, mountPending>>

\* reader.onload of the import, up to its first await
ImportLoad(i) ==
    /\ i \in 1..Len(reads)
    /\ LET doc == reads[i].doc
           newCustomTags == MergeEntries(reads[i].customTags, doc.entries, doc.shape)
           newSelectedTags ==
               IF doc.hasSelectedTags
               THEN reads[i].selectedTags \cup Range(doc.selectedTags)
               ELSE reads[i].selectedTags
       IN IF ~doc.parses
          THEN AsyncEvent(<<>>, [ui EXCEPT !.error = IMPORT_ERROR])
          ELSE IF ImportUpdated(doc)
          THEN AsyncEvent(<<Set(Upd("import", newCustomTags, newSelectedTags, 0))>>, ui)
          ELSE AsyncEvent(<<>>, ui)
    /\ reads' = RemoveAt(reads, i)
    /\ UNCHANGED <<calls, storage, storageLog, mountPending>>

\* handleExportKeywords, read back: the entries of the exported customTags
RECURSIVE Export(_)
Export(customTags) ==
    IF DOMAIN customTags = {} THEN <<>>
    ELSE LET tag == CHOOSE k \in DOMAIN customTags : TRUE
         IN <<Entry(tag, customTags[tag], TRUE)>> \o Export(DeleteKey(customTags, tag))

\* the ledger an import of the exported `other` leaves when it starts from
\* `customTags`
Merge(customTags, other) == MergeEntries(customTags, Export(other), "object")

\* a draft with a ledger: {"perf": 2}
DraftLedger == [EmptyObject EXCEPT !.customTags = [k \in {"perf"} |-> 2]]

NextLedger ==
    \/ LoadDraft
    \/ \E tag \in Tags : HandleTagToggle(tag)
    \/ \E text \in CustomTagInputs : HandleCustomTagChange(text)
    \/ \E tagToAdd \in TagsToAdd : HandleAddCustomTag(tagToAdd)
    \/ \E tag \in Keywords : HandleRemoveCustomTag(tag)
    \/ \E tag \in Tags : PromoteTagToIntention(tag)
    \/ \E doc \in ImportDocs : HandleImportKeywords(doc)
    \/ \E i \in 1..Len(reads) : ImportLoad(i)
    \/ Render

InitLedger == InitWith({NoDraft, Stored(DraftLedger)})

SpecLedger == InitLedger /\ [][NextLedger]_vars


\* the validation of Generate and Refine: contents and instructions that
\* are empty, blank or neither
ContentTexts == {"", " ", "doc"}
InstructionTexts == {"", " ", "shorten"}

NextValidation ==
    \/ LoadDraft
    \/ \E text \in ContentTexts : ContentChange(text)
    \/ HandleSubmit
    \/ \E i \in 1..Len(calls), result \in GenerateResults : GenerateResolve(i, result)
    \/ \E i \in 1..Len(calls) : GenerateFail(i)
    \/ \E text \in InstructionTexts : SetRefinementPrompt(text)
    \/ HandleRefineSubmit
    \/ \E i \in 1..Len(calls), result \in RefineResults : RefineResolve(i, result)
    \/ \E i \in 1..Len(calls) : RefineFail(i)
    \/ Render

InitValidation == InitWith({NoDraft, Stored(DraftGenerated)})

SpecValidation == InitValidation /\ [][NextValidation]_vars


----------------------------------------------------------------------------
\* Properties of the History Store (SpecStore)

Last(seq) == seq[Len(seq)]

SessionStateFields ==
    {"content", "selectedTags", "customTags", "suggestions", "keywords",
     "suggestionHistory", "semanticScore", "selectionGroup"}

\* the step in which React applies the oldest queued update, of kind op
Applies(op) ==
    /\ queue # <<>>
    /\ Head(queue).op = op
    /\ queue' = Tail(queue)
    /\ applied' = Append(applied, Head(queue))

\* what the updaters of StoreUpdaters are to return for the entry e
Expected(u, e) ==
    IF u.kind = "content"
    THEN [e EXCEPT !.content = u.a]
    ELSE [e EXCEPT !.selectedTags =
              IF u.a \in e.selectedTags THEN e.selectedTags \ {u.a}
              ELSE e.selectedTags \cup {u.a}]

\* the operations of a sequence of updates
Ops(seq) == [i \in 1..Len(seq) |-> seq[i].op]

\* item is the commit of the updater of this kind and argument
IsSet(item, kind, a) == item.op = "set" /\ item.u.kind = kind /\ item.u.a = a

EntryA == [initialState EXCEPT !.content = "A"]
EntryB == [initialState EXCEPT !.content = "B"]
EntryC == [initialState EXCEPT !.content = "C"]
EntryD == [initialState EXCEPT !.content = "D"]

\* C1: whatever calls of commit, undo, redo and reset have been applied, also
\* in the middle of a batch of calls dispatched before a re-render, the cursor
\* is a valid index of the entry array and every slot holds a Session State,
\* so that `current` is defined.
C1_CursorInRange ==
    /\ state.currentIndex \in 0..(Len(state.history) - 1)
    /\ rendered.currentIndex \in 0..(Len(rendered.history) - 1)
    /\ \A i \in 1..Len(state.history) :
          /\ DOMAIN state.history[i] = SessionStateFields
          /\ state.history[i].selectionGroup \in 1..Len(arrays)

\* in a batch of a commit and an undo dispatched on a store whose cursor is
\* not at the last entry, the commit has been applied
C1_Witness ==
    /\ Ops(applied) = <<"set">>
    /\ Ops(queue) = <<"undo">>
    /\ CanRedo(rendered)
    /\ state # rendered
    /\ state.currentIndex = Len(state.history) - 1

\* C2: applying a commit is one transition that computes the new state from
\* the entry at the cursor, keeps the entries up to the cursor, appends the
\* new state and moves the cursor to it.
C2_CommitAtomic ==
    [][Applies("set") =>
          LET c == state.currentIndex
          IN /\ state'.history =
                   Append(SubSeq(state.history, 1, c + 1),
                          Expected(Head(queue).u, state.history[c + 1]))
             /\ state'.currentIndex = c + 1]_vars

\* a content commit has been applied at a cursor whose entry differs from
\* the last entry in its tags
C2_Witness ==
    /\ Len(applied) = 1
    /\ applied[1].op = "set"
    /\ applied[1].u.kind = "content"
    /\ queue # <<>>
    /\ rendered.currentIndex < Len(rendered.history) - 1
    /\ Last(rendered.history).selectedTags # Current(rendered).selectedTags
    /\ Current(state) = [Current(rendered) EXCEPT !.content = applied[1].u.a]

\* C3: a commit leaves no entry ahead of the cursor (canRedo is false right
\* after it); from [init, A, B, C] with the cursor on A, commit D gives
\* [init, A, D] with current D, and a redo at the last entry changes nothing.
C3_CommitDiscardsRedo ==
    [][/\ Applies("set") =>
             /\ Len(state'.history) = state.currentIndex + 2
             /\ ~CanRedo(state')
             /\ (/\ state.history = <<initialState, EntryA, EntryB, EntryC>>
                 /\ state.currentIndex = 1
                 /\ IsSet(Head(queue), "content", "D"))
                => /\ state'.history = <<initialState, EntryA, EntryD>>
                   /\ Current(state') = EntryD
       /\ (Applies("redo") /\ ~CanRedo(state)) => state' = state]_vars

\* commit D has been applied to [init, A, B, C] undone twice, a redo follows
C3_Witness ==
    /\ rendered.history = <<initialState, EntryA, EntryB, EntryC>>
    /\ rendered.currentIndex = 1
    /\ Len(applied) = 1
    /\ IsSet(applied[1], "content", "D")
    /\ Ops(queue) = <<"redo">>
    /\ state.history = <<initialState, EntryA, EntryD>>
    /\ state.currentIndex = 2

RECURSIVE UndoTimes(_, _)
UndoTimes(hs, k) == IF k = 0 THEN hs ELSE UndoTimes(undoState(hs), k - 1)

RECURSIVE RedoTimes(_, _)
RedoTimes(hs, k) == IF k = 0 THEN hs ELSE RedoTimes(redoState(hs), k - 1)

\* C4: from every store state and for every k up to the cursor, k undo calls
\* make current the entry k places before the cursor without changing the
\* entries, and k redo calls after them give back the store as it was; an
\* undo followed by a redo inside one batch gives back the rendered store.
C4_UndoRedoRoundTrip ==
    /\ [](\A k \in 0..state.currentIndex :
             LET u == UndoTimes(state, k)
             IN /\ u.history = state.history
                /\ Current(u) = state.history[state.currentIndex + 1 - k]
                /\ RedoTimes(u, k) = state)
    /\ [][(/\ Ops(applied) = <<"undo">>
           /\ Applies("redo")
           /\ CanUndo(rendered)) => state' = rendered]_vars

\* two undo calls have been rendered on a history of three or more entries,
\* the first of two redo calls has been applied
C4_Witness ==
    /\ Len(rendered.history) >= 3
    /\ rendered.currentIndex = Len(rendered.history) - 3
    /\ Ops(applied) = <<"redo">>
    /\ Ops(queue) = <<"redo">>
    /\ state.currentIndex = rendered.currentIndex + 1

\* C5: applying an undo or a redo leaves the entry array as it is; undo moves
\* the cursor down by one when it is above 0, redo moves it up by one when it
\* is below the last index, and otherwise the store is unchanged; a queued
\* undo or redo can always be applied.
C5_UndoRedoFrame ==
    /\ [][/\ Applies("undo") =>
                /\ state'.history = state.history
                /\ state'.currentIndex =
                      IF state.currentIndex > 0 THEN state.currentIndex - 1
                      ELSE state.currentIndex
          /\ Applies("redo") =>
                /\ state'.history = state.history
                /\ state'.currentIndex =
                      IF state.currentIndex < Len(state.history) - 1
                      THEN state.currentIndex + 1
                      ELSE state.currentIndex]_vars
    /\ []((queue # <<>> /\ Head(queue).op \in {"undo", "redo"}) => ENABLED ApplyUpdate)

\* undo at cursor 0 and redo at the last entry have both been applied
C5_Witness ==
    /\ Ops(applied) = <<"undo", "redo">>
    /\ queue = <<>>
    /\ Len(state.history) = 1
    /\ state.currentIndex = 0

\* C6: applying reset(newState) to any store gives the single entry newState
\* with the cursor at 0, where neither undo nor redo is possible.
C6_ResetSingleEntry ==
    [][Applies("reset") =>
          /\ state'.history = <<Head(queue).u.a>>
          /\ state'.currentIndex = 0
          /\ ~CanUndo(state')
          /\ ~CanRedo(state')]_vars

\* a reset has been applied to a store of three or more entries whose cursor
\* was in the middle
C6_Witness ==
    /\ Len(applied) = 1
    /\ applied[1].op = "reset"
    /\ queue # <<>>
    /\ Len(rendered.history) >= 3
    /\ rendered.currentIndex = 1
    /\ state = [history |-> <<applied[1].u.a>>, currentIndex |-> 0]

\* C7: two commits f then g dispatched without a render in between are
\* applied in that order, g receiving the result of f: the store holds the
\* rendered entries up to the cursor, then f(s), then g(f(s)), and g(f(s)) is
\* current.
C7_CommitsInCallOrder ==
    [][(/\ Len(applied) = 1
        /\ applied[1].op = "set"
        /\ Applies("set")) =>
          LET s == Current(rendered)
              fs == Expected(applied[1].u, s)
              gfs == Expected(Head(queue).u, fs)
          IN /\ state'.history =
                   SubSeq(rendered.history, 1, rendered.currentIndex + 1) \o <<fs, gfs>>
             /\ Current(state') = gfs]_vars

\* a tag toggle f and a content change g have been applied in one batch
C7_Witness ==
    /\ Len(applied) = 2
    /\ IsSet(applied[1], "toggle", "api")
    /\ IsSet(applied[2], "content", "B")
    /\ queue = <<>>
    /\ Current(state).content = "B"
    /\ Current(state).selectedTags = {"api"}
    /\ state.history[state.currentIndex].content # "B"

----------------------------------------------------------------------------
\* Properties of the App (SpecDisplay, SpecLineage)

\* the store's current Session State after the first n of the updates q
CurrentAfter(q, n) == Current(ProcessQueue(state, arrays, SubSeq(q, 1, n)).state)

\* C8: a history entry is immutable: an entry that stays in the history keeps
\* its field values, the contents and order of its selection group included,
\* whatever operation or render happens.
C8_EntriesImmutable ==
    [][\A i \in 1..Len(state.history) :
          (i <= Len(state'.history) /\ state'.history[i] = state.history[i])
          => arrays'[state.history[i].selectionGroup]
                = arrays[state.history[i].selectionGroup]]_vars

\* C9: Revert(index), for an index of the lineage of the store's current
\* state, makes lineage[index].priorSuggestion the active suggestion and makes
\* the lineage the entries before index followed by the "Current (Reverted
\* From)" entry holding the suggestion that was active just before the revert.
C9_RevertResult ==
    [][\A index \in 0..(MaxLineage - 1) :
          LET before == CurrentAfter(queue, Len(queue))
          IN (HandleRevertToVersion(index) /\ index < Len(before.suggestionHistory))
             => /\ Current(state').suggestions
                      = before.suggestionHistory[index + 1].suggestion
                /\ Current(state').suggestionHistory
                      = Append(SubSeq(before.suggestionHistory, 1, index),
                               [prompt |-> REVERT_PROMPT,
                                suggestion |-> before.suggestions])]_vars

\* C10: when the commit of a completed Refine is applied, the lineage grows
\* by the one entry {instruction, suggestion active at that moment}, earlier
\* entries stay, and the provider's result becomes the active suggestion.
C10_RefineAppendsActive ==
    [][\A j \in 1..Len(applied') :
          (applied'[j].op = "set" /\ applied'[j].u.kind = "refineResult")
          => LET before == CurrentAfter(applied', j - 1)
                 after == CurrentAfter(applied', j)
             IN /\ after.suggestionHistory
                      = Append(before.suggestionHistory,
                               [prompt |-> applied'[j].u.c.prompt,
                                suggestion |-> before.suggestions])
                /\ after.suggestions = applied'[j].u.a]_vars

\* the Session State the store holds once React has applied every update
\* dispatched so far
Settled == Current(ProcessQueue(state, arrays, queue).state)

\* the updater kinds of a sequence of dispatched updates
Kinds(seq) == [i \in 1..Len(seq) |-> seq[i].u.kind]

\* C11: when a Generate succeeds, whatever the lineage was (none, base
\* suggestion, refined), the Session State that results from its commit has
\* the provider's result as active suggestion and an empty lineage.
C11_GenerateClearsLineage ==
    [][\A i \in 1..Len(calls), result \in GenerateResults :
          GenerateResolve(i, result)
          => /\ Settled'.suggestions = result.suggestions
             /\ Settled'.suggestionHistory = <<>>]_vars

\* a Generate succeeded on a refined suggestion: its commit was applied to an
\* entry with a non-empty lineage
C11_Witness ==
    /\ Kinds(applied) = <<"submitResult">>
    /\ state.currentIndex >= 1
    /\ state.history[state.currentIndex].suggestionHistory # <<>>
    /\ currentState.suggestionHistory = <<>>
    /\ currentState.suggestions \in Generated

\* the lineage lengths before and after the j-th update of the pass React
\* has just made
LineageBefore(j) == Len(CurrentAfter(applied', j - 1).suggestionHistory)
LineageAfter(j) == Len(CurrentAfter(applied', j).suggestionHistory)

\* C12 as stated: the lineage length counts the Refines since the last
\* Generate, that is: a Generate's commit makes it 0, a Refine's commit adds
\* one, and a Revert's commit leaves it as it is.
C12_LengthCountsRefines ==
    [][\A j \in 1..Len(applied') :
          applied'[j].op = "set"
          => /\ applied'[j].u.kind = "submitResult" => LineageAfter(j) = 0
             /\ applied'[j].u.kind = "refineResult" => LineageAfter(j) = LineageBefore(j) + 1
             /\ applied'[j].u.kind = "revert" => LineageAfter(j) = LineageBefore(j)]_vars

\* C12 amended: a Generate's commit makes the lineage length 0, a Refine's
\* commit adds one, and Revert(index) makes it index + 1 (the entries before
\* index and the "Current (Reverted From)" entry), which is at most the
\* length shown when the button was clicked.
C12_LengthAfterRevert ==
    [][/\ \A j \in 1..Len(applied') :
             applied'[j].op = "set"
             => /\ applied'[j].u.kind = "submitResult" => LineageAfter(j) = 0
                /\ applied'[j].u.kind = "refineResult"
                      => LineageAfter(j) = LineageBefore(j) + 1
       /\ \A index \in 0..(MaxLineage - 1) :
             HandleRevertToVersion(index)
             => /\ Len(Current(state').suggestionHistory) = index + 1
                /\ index + 1 <= Len(Current(rendered).suggestionHistory)]_vars

\* Revert(0) was applied to a suggestion refined twice: the lineage went
\* from two entries to one
C12_Witness ==
    /\ Kinds(applied) = <<"revert">>
    /\ state.currentIndex >= 1
    /\ Len(state.history[state.currentIndex].suggestionHistory) = 2
    /\ Len(currentState.suggestionHistory) = 1

\* the hook's state object once React has applied every update dispatched
\* so far
SettledStore == ProcessQueue(state, arrays, queue).state

\* C13: a completed Generate, Refine or Revert is one commit: one undo after
\* it gives back the active suggestion (for Revert also the lineage) of the
\* moment the transition was invoked.  The provider calls carry the
\* suggestion their handler was invoked with.
C13_OneUndoRestores ==
    [][/\ \A i \in 1..Len(calls), result \in GenerateResults :
             GenerateResolve(i, result)
             => Current(undoState(SettledStore')).suggestions = calls[i].suggestion
       /\ \A i \in 1..Len(calls), result \in RefineResults :
             RefineResolve(i, result)
             => Current(undoState(SettledStore')).suggestions = calls[i].suggestion
       /\ \A index \in 0..(MaxLineage - 1) :
             HandleRevertToVersion(index)
             => /\ Current(undoState(state')).suggestions = Settled.suggestions
                /\ Current(undoState(state')).suggestionHistory
                      = Settled.suggestionHistory]_vars

\* the suggestions a Session State keeps: the priorSuggestions of its lineage
\* and its active suggestion
Priors(e) == {e.suggestionHistory[k].suggestion : k \in 1..Len(e.suggestionHistory)}
Trail(e) == Priors(e) \cup ({e.suggestions} \ {NULL})

\* C14 as stated: the commit of a Refine or of a Revert loses no suggestion of
\* the trail (Generate starts a new trail).
C14_TrailComplete ==
    [][\A j \in 1..Len(applied') :
          (applied'[j].op = "set" /\ applied'[j].u.kind \in {"refineResult", "revert"})
          => Trail(CurrentAfter(applied', j - 1)) \subseteq Trail(CurrentAfter(applied', j))]_vars

\* C14 amended: a Refine keeps every lineage entry and adds the suggestion it
\* was invoked with; after Revert(index) the trail consists of the
\* priorSuggestions of the entries 0..index of the lineage shown and of the
\* suggestion shown: the entries after index are dropped.
C14_TrailAfterRevert ==
    [][/\ \A j \in 1..Len(applied') :
             (applied'[j].op = "set" /\ applied'[j].u.kind = "refineResult")
             => /\ Priors(CurrentAfter(applied', j))
                      = Priors(CurrentAfter(applied', j - 1))
                           \cup {applied'[j].u.c.suggestion}
                /\ CurrentAfter(applied', j).suggestions = applied'[j].u.a
       /\ \A index \in 0..(MaxLineage - 1) :
             HandleRevertToVersion(index)
             => LET shown == Current(rendered)
                IN Trail(Current(state'))
                      = {shown.suggestionHistory[k].suggestion : k \in 1..(index + 1)}
                           \cup {shown.suggestions}]_vars

\* a Revert dropped a suggestion of the trail
C14_Witness ==
    /\ Kinds(applied) = <<"revert">>
    /\ state.currentIndex >= 1
    /\ \E x \in Trail(state.history[state.currentIndex]) : x \notin Trail(currentState)

\* C15: when the last commit applied is a Revert, a Revert to the last
\* lineage entry (the synthetic one it appended) makes active again the
\* suggestion of the entry that Revert was applied to, which is the entry
\* just before the cursor.
C15_RevertOfRevert ==
    [][\A index \in 0..(MaxLineage - 1) :
          (/\ HandleRevertToVersion(index)
           /\ applied # <<>>
           /\ Last(applied).op = "set"
           /\ Last(applied).u.kind = "revert"
           /\ index = Len(currentState.suggestionHistory) - 1)
          => Current(state').suggestions
                = state.history[state.currentIndex].suggestions]_vars

----------------------------------------------------------------------------
\* Persistence of the draft

\* C16: at most one persistence write is scheduled at any moment, and it is
\* the one debouncedSave.current refers to: a change of the current state
\* cancels the pending timeout before it schedules the next.
C16_OneWriteScheduled ==
    /\ Len(timers) <= 1
    /\ \A i \in 1..Len(timers) : timers[i].ref

\* a change replaced the timeout of the preceding change before it fired: no
\* write has run, and the pending timeout holds the state of the second
\* change
C16_Witness ==
    /\ storageLog = <<>>
    /\ state.currentIndex = 2
    /\ Len(timers) = 1
    /\ timers[1].state = currentState

\* C17: the write that executes after a burst of changes is the only one
\* (no timeout is left pending) and stores the encoding of the state that is
\* current when it runs, i.e. the state after the last change: a superseded
\* state never reaches storage.
C17_LastStateWritten ==
    [][TimerFire(TRUE)
       => /\ storage' = Stored(Serialize(currentState, arrays))
          /\ timers' = <<>>]_vars

\* two changes were made and a single write has run, after the second one
C17_Witness ==
    /\ storageLog = <<"setItem">>
    /\ timers = <<>>
    /\ state.currentIndex = 2
    /\ currentState.content # state.history[2].content
    /\ storage = Stored(Serialize(currentState, arrays))

\* C18: a render in which the current state changed leaves a write of the
\* new state scheduled; and once no write is pending and the last write
\* succeeded, storage holds the encoding of the current Session State.
C18_PersistedIsCurrent ==
    /\ (~mountPending /\ storageLog = <<>>)
          => (timers # <<>> /\ Last(timers).state = currentState)
    /\ (timers = <<>> /\ storageLog # <<>> /\ Last(storageLog) = "setItem")
          => storage = Stored(Serialize(currentState, arrays))

\* C19: after a confirmed clear, as long as the reset to initialState is the
\* last thing rendered, the store is the single default entry and storage
\* holds no draft.
C19_ClearErasesDraft ==
    (/\ applied # <<>>
     /\ Last(applied).op = "reset"
     /\ ~Last(applied).u.c)
    => /\ state = [history |-> <<initialState>>, currentIndex |-> 0]
       /\ storage = NoDraft

\* C20: a write that fails is caught in the timeout callback: the History
\* Store, its pending updates, the heap and storage stay as they are; and
\* after a failed write a change of the current state schedules a write of
\* the new state as before.
C20_FailedWriteContained ==
    [][/\ TimerFire(FALSE)
          => /\ state' = state
             /\ queue' = queue
             /\ arrays' = arrays
             /\ rendered' = rendered
             /\ storage' = storage
       /\ (/\ storageLog # <<>>
           /\ Last(storageLog) = "setItem throws"
           /\ StateChanged(state, state'))
          => (timers' # <<>> /\ Last(timers').state = Current(state'))]_vars

\* a write failed and a later change has scheduled the next one
C20_Witness ==
    /\ storageLog # <<>>
    /\ Last(storageLog) = "setItem throws"
    /\ state.currentIndex >= 1
    /\ timers # <<>>
    /\ timers[1].state = currentState

----------------------------------------------------------------------------
\* Rehydration of the draft (SpecCodec)

\* C21: when the item is absent or JSON.parse throws on it, the load-draft
\* effect leaves the History Store a single entry holding initialState,
\* dispatches nothing and sets no error.
C21_FallbackSilent ==
    [][(LoadDraft /\ storage.item \in {"absent", "malformed"})
       => /\ state' = [history |-> <<initialState>>, currentIndex |-> 0]
          /\ rendered' = state'
          /\ arrays' = << <<>> >>
          /\ queue' = <<>>
          /\ ui'.error = NULL
          /\ ui' = renderedUi']_vars

\* the mount effects have run on an item that does not parse
C21_Witness ==
    /\ ~mountPending
    /\ storage = MalformedDraft
    /\ state = [history |-> <<initialState>>, currentIndex |-> 0]
    /\ ui.error = NULL


\* the JSON types a field of a saved draft has
FieldTypes ==
    [content |-> {"string"}, selectedTags |-> {"array"}, customTags |-> {"object"},
     suggestions |-> {"string", "null"}, keywords |-> {"array"},
     suggestionHistory |-> {"array"}, semanticScore |-> {"number"},
     selectionGroup |-> {"array"}]

\* what a field of a saved draft is rehydrated to
Decoded(f, v) == IF f = "selectedTags" THEN NewSet(v) ELSE v

\* C22: when exactly one field of the parsed object is missing or has a type
\* other than the one the save effect writes, the state the store is reset
\* to has initialState's value in that field and the saved value in every
\* other field.
C22_FieldByField ==
    ~mountPending
    => \A f \in DOMAIN FieldTypes :
          (/\ storage.parsed[f].type \notin FieldTypes[f]
           /\ \A g \in DOMAIN FieldTypes \ {f} : storage.parsed[g].type \in FieldTypes[g])
          => /\ currentState[f] = initialStateJson[f]
             /\ \A g \in DOMAIN FieldTypes \ {f} :
                   currentState[g] = Decoded(g, storage.parsed[g])


\* the Session State s, whose selectionGroup array holds g, and the entry e
\* of the heap agree in all eight fields
SameSessionState(e, heap, s, g) ==
    /\ e.content = s.content
    /\ e.selectedTags = s.selectedTags
    /\ e.customTags = s.customTags
    /\ e.suggestions = s.suggestions
    /\ e.keywords = s.keywords
    /\ e.suggestionHistory = s.suggestionHistory
    /\ e.semanticScore = s.semanticScore
    /\ heap[e.selectionGroup] = g

\* C23: round trip.  When the item is the draft the save effect writes for a
\* valid Session State, the state the load-draft effect resets the store to
\* equals that Session State in all eight fields.
C23_RoundTrip ==
    \A s \in ValidStates, g \in CodecGroups :
        (~mountPending /\ storage = Stored(Serialize(s, <<g>>)))
        => /\ state.currentIndex = 0
           /\ Len(state.history) = 1
           /\ SameSessionState(currentState, arrays, s, g)


----------------------------------------------------------------------------
\* Tags and the reinforcement ledger (SpecLedger)

\* the History Store once the updates dispatched so far are applied
Dispatched == ProcessQueue(state, arrays, queue).state

\* the store after one commit of newState on the store hs
Committed(hs, newState) ==
    [history |-> Append(SubSeq(hs.history, 1, hs.currentIndex + 1), newState),
     currentIndex |-> hs.currentIndex + 1]

\* the keyword handleAddCustomTag is given: its argument, or the text of the
\* keyword input
KeywordGiven(tagToAdd) ==
    IF Truthy(tagToAdd) THEN tagToAdd ELSE renderedUi.customTagInput

\* C24 as stated: an add of a non-empty keyword commits a Session State that
\* differs from the previous one in ledger[keyword] only, which is the
\* previous intensity (0 when absent) plus 1.
C24_AddIncrements ==
    [][\A tagToAdd \in TagsToAdd :
          (HandleAddCustomTag(tagToAdd) /\ KeywordGiven(tagToAdd) # "")
          => LET keyword == KeywordGiven(tagToAdd)
                 prev == Current(Dispatched)
             IN state' = Committed(Dispatched,
                            [prev EXCEPT !.customTags =
                                SetKey(@, keyword, Intensity(@, keyword) + 1)])]_vars

\* C24, amended: the keyword is trimmed first.  An add of a keyword that is
\* non-empty after trimming commits a Session State that differs from the
\* previous one in ledger[trimmed keyword] only, which is the previous
\* intensity (0 when absent) plus 1; an add of a blank keyword changes
\* nothing.
C24_AddTrimmed ==
    [][\A tagToAdd \in TagsToAdd :
          HandleAddCustomTag(tagToAdd)
          => LET keyword == Trim(KeywordGiven(tagToAdd))
                 prev == Current(Dispatched)
             IN IF keyword # ""
                THEN state' = Committed(Dispatched,
                                [prev EXCEPT !.customTags =
                                    SetKey(@, keyword, Intensity(@, keyword) + 1)])
                ELSE UNCHANGED <<state, queue, arrays>>]_vars

\* the keyword typed as " api " was added to a ledger that held it
C24_Witness ==
    /\ applied # <<>>
    /\ IsSet(Last(applied), "addCustom", "api")
    /\ state.currentIndex >= 1
    /\ "api" \in DOMAIN state.history[state.currentIndex].customTags
    /\ currentState.customTags["api"]
          = state.history[state.currentIndex].customTags["api"] + 1

\* the intensity the document gives the key: that of its valid entry of this
\* key (1 for an element of the array shape), 0 if it has none
Imported(doc, key) ==
    LET Matches(e) == e.valid /\ e.tag = key
        found == SelectSeq(doc.entries, Matches)
    IN IF found = <<>> THEN 0
       ELSE IF doc.shape = "array" THEN Len(found) ELSE found[1].value
Imports(doc, key) == \E i \in 1..Len(doc.entries) : doc.entries[i].valid /\ doc.entries[i].tag = key

Ledgers ==
    {EmptyLedger, [k \in {"perf"} |-> 2], [k \in {"api"} |-> 1],
     [k \in {"api", "perf"} |-> IF k = "perf" THEN 3 ELSE 1]}

\* C26: the merge of ledgers is commutative and associative, and the ledger
\* after two imports does not depend on their order; A is the ledger of the
\* current Session State, B and C are imported ledgers.
C26_MergeCommutesAssociates ==
    LET A == currentState.customTags
    IN \A B, C \in Ledgers :
          /\ Merge(A, B) = Merge(B, A)
          /\ Merge(Merge(A, B), C) = Merge(A, Merge(B, C))
          /\ Merge(Merge(A, B), C) = Merge(Merge(A, C), B)

\* the current ledger is itself the result of an import onto a ledger that
\* shares a key with the imported one
C26_Witness ==
    /\ applied # <<>>
    /\ Last(applied).op = "set"
    /\ Last(applied).u.kind = "import"
    /\ state.currentIndex >= 1
    /\ "perf" \in DOMAIN state.history[state.currentIndex].customTags
    /\ currentState.customTags["perf"] > state.history[state.currentIndex].customTags["perf"]
    /\ "api" \in DOMAIN currentState.customTags

\* C27: a promotion is one commit.  The store after it is the store before
\* it with one entry pushed, in which the tag is out of selectedTags and its
\* intensity is the previous one (0 when absent) plus 1; so no entry holds
\* one of the two changes without the other.
C27_PromotionOneCommit ==
    [][\A tag \in Tags :
          PromoteTagToIntention(tag)
          => LET prev == Current(Dispatched)
             IN state' = Committed(Dispatched,
                            [prev EXCEPT !.selectedTags = @ \ {tag},
                                         !.customTags =
                                             SetKey(@, tag, Intensity(@, tag) + 1)])]_vars

\* the selected tag "api" was promoted
C27_Witness ==
    /\ applied # <<>>
    /\ IsSet(Last(applied), "promote", "api")
    /\ state.currentIndex >= 1
    /\ "api" \in state.history[state.currentIndex].selectedTags
    /\ "api" \notin currentState.selectedTags
    /\ currentState.customTags["api"] = 1

\* the update applied last is the promotion of tag
JustPromoted(tag) == applied # <<>> /\ IsSet(Last(applied), "promote", tag)

\* tag is a key of customTags and a member of selectedTags of the entry
InBoth(entry, tag) == tag \in DOMAIN entry.customTags /\ tag \in entry.selectedTags

\* C28: a promoted tag is never both a key of customTags and a member of
\* selectedTags.  Checked on the steps that follow a promotion: whatever
\* the next handler or continuation is, the current state it leaves, with
\* the updates it dispatched applied, does not hold the tag in both.
C28_PromotedNotInBoth ==
    [][\A tag \in Tags :
          JustPromoted(tag)
          => ~InBoth(Current(ProcessQueue(state', arrays', queue').state), tag)]_vars

\* C29: the onload of a file that is not JSON commits nothing: the History
\* Store and the dispatched updates are as before, and the error message is
\* set.
C29_MalformedImport ==
    [][\A i \in 1..Len(reads) :
          (ImportLoad(i) /\ ~reads[i].doc.parses)
          => /\ state' = state
             /\ queue' = queue
             /\ arrays' = arrays
             /\ ui'.error = IMPORT_ERROR]_vars

\* the error of a failed import is on screen, the ledger that was there when
\* the file was chosen is unchanged
C29_Witness ==
    /\ renderedUi.error = IMPORT_ERROR
    /\ reads = <<>>
    /\ queue = <<>>
    /\ currentState.customTags = [k \in {"perf"} |-> 2]
    /\ state.currentIndex = 0


----------------------------------------------------------------------------
\* Validation (SpecValidation)

\* C30: a Generate with empty or blank content, and a Refine with an empty
\* or blank instruction or without a suggestion, commit nothing and call no
\* provider: the store is the one the updates dispatched before leave, the
\* render applies those updates only, and no call is added.
C30_ValidationBlocks ==
    [][((/\ HandleSubmit
         /\ Trim(Current(rendered).content) = "")
        \/ (/\ HandleRefineSubmit
            /\ \/ Trim(renderedUi.refinementPrompt) = ""
               \/ ~Truthy(Current(rendered).suggestions)))
       => /\ state' = Dispatched
          /\ applied' = queue
          /\ calls' = calls]_vars

\* both messages are on screen: Generate was refused for the blank content
\* and Refine for the empty instruction; nothing was committed or called
C30_Witness ==
    /\ renderedUi.error = "Please enter some content to analyze."
    /\ renderedUi.refinementError = "Please enter a refinement instruction."
    /\ currentState.content = " "
    /\ state.currentIndex = 1
    /\ calls = <<>>


----------------------------------------------------------------------------
\* Provider failures and concurrent requests

\* C31: a Generate or Refine whose provider call fails leaves the History
\* Store as it was before the operation was invoked.  The operation is two
\* steps, the handler up to its await and the continuation of the rejected
\* call: the continuation commits nothing, and the handler has committed
\* nothing of its own when it reaches the await.
C31_FailureLeavesStore ==
    [][/\ \A i \in 1..Len(calls) :
             (GenerateFail(i) \/ RefineFail(i))
             => /\ state' = state
                /\ queue' = queue
                /\ arrays' = arrays
       /\ ((HandleSubmit \/ HandleRefineSubmit) /\ calls' # calls)
             => state' = Dispatched]_vars


\* Generate is not re-entrant: its button is disabled while isLoading, which
\* the handler sets before its await and clears when the call has settled,
\* so at most one request of the Generate button is in flight.  (A Refine
\* request may be in flight together with it.)
OneGenerateInFlight ==
    \A i, j \in 1..Len(calls) :
        (calls[i].kind = "generate" /\ calls[j].kind = "generate") => i = j


----------------------------------------------------------------------------
\* Selections

----------------------------------------------------------------------------
\* Overlapping provider calls (SpecLineage)

\* C32: a generation request that resolves commits its result, whatever other
\* request is in flight, and that commit makes its result the active
\* suggestion.  With two requests in flight both results are therefore
\* committed, and after the second resolution the active suggestion is the
\* result of the request that resolved last, whichever was issued first.
C32_LastResolvingWins ==
    [][\A i \in 1..Len(calls) :
          /\ \A result \in GenerateResults :
                GenerateResolve(i, result)
                => /\ Kinds(queue') = Append(Kinds(queue), "submitResult")
                   /\ Settled'.suggestions = result.suggestions
          /\ \A result \in RefineResults :
                RefineResolve(i, result)
                => /\ Kinds(queue') = Append(Kinds(queue), "refineResult")
                   /\ Settled'.suggestions = result.suggestions]_vars

\* a Refine and a Generate were in flight at once: both have resolved since
\* the last render, the Generate first, and both commits are dispatched; the
\* active suggestion is the Refine's result
C32_Witness ==
    /\ Kinds(queue) = <<"submitResult", "refineResult">>
    /\ calls = <<>>
    /\ Settled.suggestions \in Refined
    /\ Settled.suggestionHistory # <<>>

----------------------------------------------------------------------------
\* Imports that overlap other commits (SpecLedger)

\* C34: an import accumulates onto the ledger as it is when the import
\* commits.  Whatever was committed while the file was read, the ledger the
\* import's commit leaves is the ledger before that commit with the imported
\* intensities added per key, every other key as it was.
C34_ImportOntoCommittedLedger ==
    [][\A i \in 1..Len(reads) :
          (ImportLoad(i) /\ reads[i].doc.parses)
          => LET doc == reads[i].doc
                 before == Current(Dispatched).customTags
                 after == Current(ProcessQueue(state, arrays, queue').state).customTags
             IN \A key \in Keywords :
                   /\ key \in DOMAIN after <=> (key \in DOMAIN before \/ Imports(doc, key))
                   /\ Intensity(after, key) = Intensity(before, key) + Imported(doc, key)]_vars


----------------------------------------------------------------------------
\* The lineage and the active suggestion (SpecLineage)

\* C35: in every Session State the application shows, a non-empty lineage
\* comes with a non-null active suggestion; pending and failed Generates and
\* undo/redo included.
C35_LineageHasSuggestion ==
    currentState.suggestionHistory # <<>> => currentState.suggestions # NULL


----------------------------------------------------------------------------
\* Ledger intensities (SpecLedger)

\* C36: every entry of the Reinforcement Ledger has an integer intensity of
\* at least 1 in every Session State the application shows, whatever adds,
\* removes, promotions and imports of parseable profiles led to it.
C36_IntensityAtLeastOne ==
    \A key \in DOMAIN currentState.customTags :
        /\ currentState.customTags[key] \in Int
        /\ currentState.customTags[key] >= 1


----------------------------------------------------------------------------
\* The Selection Group (SpecDisplay)

\* no element of the sequence occurs at two positions
Distinct(seq) == \A i, j \in 1..Len(seq) : seq[i] = seq[j] => i = j

\* C37: the Selection Group of every Session State of the store, current or
\* reachable by undo/redo, holds distinct snippets, whatever add-to-group
\* actions, clears, undo/redo steps and rehydration led to it.
C37_GroupDistinct ==
    \A i \in 1..Len(state.history) :
        Distinct(arrays[state.history[i].selectionGroup])

\* an add-to-group has just been committed onto a group that already held a
\* snippet added in this session, and the popover still shows the snippet
\* just added, so a further click on add-to-group meets the includes() test
C37_Witness ==
    /\ Kinds(applied) = <<"addGroup">>
    /\ state.currentIndex >= 2
    /\ Len(arrays[currentState.selectionGroup]) = 2
    /\ renderedUi.popover \in Range(arrays[currentState.selectionGroup])
    /\ ENABLED HandleAddToGroupFromPopover

====
